---- MODULE Spec2Model ----
(***************************************************************************)
(* A model of FileManager (src/src/utils/fileManager.ts): the selection    *)
(* engine that keeps allFiles and filteredFiles for a daily / folder / tag *)
(* view of an Obsidian vault.                                              *)
(*                                                                         *)
(* Strings are sequences: a path or a tag is a sequence of one-character   *)
(* strings, a basename is a sequence of collation keys (localeCompare is   *)
(* the lexicographic order on them).  A date is a day number, day 0 being  *)
(* Sunday 2023-12-31; a timestamp is a number of ticks, TicksPerDay to the *)
(* day.  The vault, the clock and the daily-notes plugin are the           *)
(* environment.                                                            *)
(***************************************************************************)
EXTENDS Integers, Sequences, FiniteSets, TLC

VARIABLES
    allFiles,        \* FileManager.allFiles: sequence of documents
    filteredFiles,   \* FileManager.filteredFiles: sequence of documents
    hasFetched,      \* FileManager.hasFetched
    hasCurrentDay,   \* FileManager.hasCurrentDay
    options,         \* FileManager.options
    vault,           \* environment: the documents the vault holds
    stat,            \* environment: document -> [ctime, mtime]
    today,           \* environment: the current day (moment())
    pending,         \* createNewDailyNote calls suspended on createDailyNote
    observed,        \* history: the operations whose calls are recorded
    lastOp,          \* history: the last step, if a call of an observed operation
    lastRet          \* history: what that call returned

vars == <<allFiles, filteredFiles, hasFetched, hasCurrentDay, options,
          vault, stat, today, pending, observed, lastOp, lastRet>>

----------------------------------------------------------------------------
(* Bounds *)

\* allFiles and filteredFiles grow without limit when a create notification
\* is repeated; a notification is only delivered below this length.
MaxLen == 3

\* Calls of createNewDailyNote that may be suspended at once.
MaxPending == 2

----------------------------------------------------------------------------
(* The calendar (moment), on December 2023 and January 2024 *)

\* Timestamps distinguish this many instants within a day.
TicksPerDay == 2

Unset == "unset"
Null == "null"
Void == "void"

\* moment().format("YYYY-MM-DD"): the fields of the formatted day.
Format(n) == IF n <= 0 THEN <<2023, 12, 31 + n>> ELSE <<2024, 1, n>>

\* An invalid moment: every comparison with it is false.
Invalid == [valid |-> FALSE, day |-> 0]
Moment(n) == [valid |-> TRUE, day |-> n]

\* moment(basename, format): the day a basename parses to.
ParseDay(b) ==
    IF Len(b) # 3 THEN Invalid
    ELSE IF b[1] = 2023 /\ b[2] = 12 /\ b[3] \in 1..31 THEN Moment(b[3] - 31)
    ELSE IF b[1] = 2024 /\ b[2] = 1 /\ b[3] \in 1..31 THEN Moment(b[3])
    ELSE Invalid

YearOf(n) == Format(n)[1]
MonthOf(n) == Format(n)[1] * 12 + (Format(n)[2] - 1)
QuarterOf(n) == Format(n)[1] * 4 + ((Format(n)[2] - 1) \div 3)
\* the locale's week starts on Sunday; day 0 is a Sunday
WeekOf(n) == n \div 7

\* moment(timestamp): the day of a timestamp
DayOfStamp(t) == t \div TicksPerDay
\* the timestamp of a file written now
NowStamp(day) == day * TicksPerDay + (TicksPerDay - 1)

\* 2024-01-03: the last day the clock reaches, the last with a note to write
LastToday == ParseDay(<<2024, 1, 3>>).day

----------------------------------------------------------------------------
(* Documents (TFile) *)

\* ".md"; the letters a, b, c collate after every digit
Ext == <<0>>
Letter(i) == 10000 + i

DailyFolder == <<"D">>

\* the daily notes of D-3 .. D+1 around 2024-01-02, in the daily-notes folder
DailyDocs == {"n1230", "n1231", "n0101", "n0102", "n0103"}
\* Projects/a.md, Projects/Sub/b.md, Other/c.md
FolderDocs == {"a", "b", "c"}
\* Other/2024-01-01.md: a date-named document outside the daily-notes folder
StrayDocs == {"o0101"}
Docs == DailyDocs \cup FolderDocs \cup StrayDocs

Basename(f) ==
    CASE f = "n1230" -> Format(-1)
      [] f = "n1231" -> Format(0)
      [] f = "n0101" -> Format(1)
      [] f = "n0102" -> Format(2)
      [] f = "n0103" -> Format(3)
      [] f = "o0101" -> Format(1)
      [] f = "a" -> <<Letter(1)>>
      [] f = "b" -> <<Letter(2)>>
      [] f = "c" -> <<Letter(3)>>

Name(f) == Basename(f) \o Ext

\* file.parent?.path || ""
ParentPath(f) ==
    CASE f \in DailyDocs -> DailyFolder
      [] f = "a" -> <<"P">>
      [] f = "b" -> <<"P", "/", "S">>
      [] f = "c" -> <<"O">>
      [] f = "o0101" -> <<"O">>

\* metadataCache.getFileCache(file)?.tags: whether there are any, and the tag strings
HasTags(f) == f \in FolderDocs \cup {"n1231", "n0101", "o0101"}
TagsOf(f) ==
    CASE f = "a" -> {<<"#", "w">>}
      [] f = "b" -> {<<"#", "w", "x">>}
      [] f = "c" -> {<<"#", "w">>, <<"#", "t">>}
      [] f = "n1231" -> {<<"#", "w", "x">>}
      [] f = "n0101" -> {<<"#", "w">>, <<"#", "t">>}
      [] f = "o0101" -> {<<"#", "w">>}
      [] OTHER -> {}

----------------------------------------------------------------------------
(* Strings and arrays *)

\* s.startsWith(p)
StartsWith(s, p) == Len(p) <= Len(s) /\ SubSeq(s, 1, Len(p)) = p

Sign(n) == IF n < 0 THEN -1 ELSE IF n > 0 THEN 1 ELSE 0

\* a.localeCompare(b), on sequences of collation keys
LocaleCompare(a, b) ==
    LET n == IF Len(a) < Len(b) THEN Len(a) ELSE Len(b)
        diff == {i \in 1..n : a[i] # b[i]}
    IN  IF diff = {} THEN Sign(Len(a) - Len(b))
        ELSE LET i == CHOOSE k \in diff : \A j \in diff : k <= j
             IN  Sign(a[i] - b[i])

\* The array with the elements f[1], ..., f[n]
Array(f) == f \o <<>>

\* [...files].sort(Cmp): Array.prototype.sort is stable, so the element at i
\* lands after every element that compares lower and every equal one before i.
SortWith(files, Cmp(_, _)) ==
    LET n == Len(files)
        pos(i) == Cardinality({j \in 1..n : Cmp(files[j], files[i]) < 0})
                  + Cardinality({j \in 1..(i - 1) : Cmp(files[j], files[i]) = 0}) + 1
    IN  Array([k \in 1..n |-> files[CHOOSE i \in 1..n : pos(i) = k]])

\* array.filter(P)
FilterSeq(files, P(_)) == SelectSeq(files, P)

\* array.reverse()
Reverse(files) == Array([k \in 1..Len(files) |-> files[Len(files) + 1 - k]])

\* Object.keys(o).sort().reverse(): the day keys, latest first
KeysDescending(keys) ==
    Array([k \in 1..Cardinality(keys) |->
              CHOOSE d \in keys : Cardinality({e \in keys : e > d}) = k - 1])

Range(files) == {files[i] : i \in 1..Len(files)}

----------------------------------------------------------------------------
(* The daily-notes plugin (obsidian-daily-notes-interface) *)

InFolder(folderPath, target) ==
    folderPath = target \/ StartsWith(folderPath, target \o <<"/">>)

\* getDateFromFile(file, "day"): the day of a basename in the daily-note format
getDateFromFile(f) == ParseDay(Basename(f))

\* getAllDailyNotes(): the dated documents of the daily-notes folder, by day
getAllDailyNotes ==
    LET notes == {f \in vault : InFolder(ParentPath(f), DailyFolder)
                                /\ getDateFromFile(f).valid}
        keys == {getDateFromFile(f).day : f \in notes}
    IN  [k \in keys |-> CHOOSE f \in notes : getDateFromFile(f).day = k]

\* getDailyNote(date, dailyNotes): the note of that day, if any
HasDailyNote(day, cache) == day \in DOMAIN cache

\* the document createDailyNote(date) writes
NoteFor(day) ==
    CHOOSE f \in Docs : ParentPath(f) = DailyFolder /\ Basename(f) = Format(day)

----------------------------------------------------------------------------
(* FileManager: sorting *)

parseTimeField(timeField) ==
    LET field == IF timeField = Unset THEN "mtime" ELSE timeField
        isReverse == field \in {"ctimeReverse", "mtimeReverse", "nameReverse"}
        baseTimeField ==
            CASE field = "ctimeReverse" -> "ctime"
              [] field = "mtimeReverse" -> "mtime"
              [] field = "nameReverse" -> "name"
              [] OTHER -> field
    IN  [isReverse |-> isReverse, baseTimeField |-> baseTimeField]

\* file.stat[baseTimeField]
StatOf(f, baseTimeField) ==
    IF baseTimeField = "ctime" THEN stat[f].ctime ELSE stat[f].mtime

sortFilesByTimeField(files, timeField) ==
    LET p == parseTimeField(timeField)
        Cmp(a, b) ==
            IF p.baseTimeField = "name"
            THEN IF p.isReverse THEN LocaleCompare(Name(b), Name(a))
                 ELSE LocaleCompare(Name(a), Name(b))
            ELSE IF p.isReverse
                 THEN StatOf(a, p.baseTimeField) - StatOf(b, p.baseTimeField)
                 ELSE StatOf(b, p.baseTimeField) - StatOf(a, p.baseTimeField)
    IN  SortWith(files, Cmp)

\* sortDailyNotes returning the array as it was handed over
sortDailyNotes_asPushed(notes, timeField) == notes

sortDailyNotes(notes, timeField) ==
    LET p == parseTimeField(timeField)
        Cmp(a, b) ==
            IF p.isReverse THEN LocaleCompare(Name(b), Name(a))
            ELSE LocaleCompare(Name(a), Name(b))
    IN  IF p.baseTimeField = "name" THEN SortWith(notes, Cmp)
        ELSE sortFilesByTimeField(notes, timeField)

----------------------------------------------------------------------------
(* FileManager: the engine's fields as one record, each method a function  *)
(* from the fields before the call to the fields after it.  The field      *)
(* cacheDailyNotes is assigned getAllDailyNotes() before each of its reads *)
(* (fetchDailyNotes, checkDailyNote), so it carries nothing from one call  *)
(* to the next: it is the local cache of those two methods.                *)

Self ==
    [allFiles |-> allFiles, filteredFiles |-> filteredFiles,
     hasFetched |-> hasFetched, hasCurrentDay |-> hasCurrentDay,
     options |-> options]

\* !x of a string option: undefined or empty, both written <<>>
Falsy(x) == x = <<>>

fetchDailyNotes(s) ==
    LET cache == getAllDailyNotes
        \* Object.values(cache)
        notes == Array([k \in 1..Cardinality(DOMAIN cache) |->
                          cache[CHOOSE d \in DOMAIN cache :
                                  Cardinality({e \in DOMAIN cache : e < d}) = k - 1]])
        p == parseTimeField(s.options.timeField)
        Cmp(a, b) ==
            LET result == LocaleCompare(Name(a), Name(b))
            IN  IF p.isReverse THEN -result ELSE result
        keys == KeysDescending(DOMAIN cache)
        pushed == s.allFiles \o [k \in 1..Len(keys) |-> cache[keys[k]]]
    IN  [s EXCEPT !.allFiles =
            IF p.baseTimeField = "name" THEN SortWith(notes, Cmp)
            ELSE IF p.baseTimeField # "ctime" /\ p.baseTimeField # "mtime"
                 THEN sortFilesByTimeField(pushed, s.options.timeField)
                 ELSE pushed]

\* app.vault.getMarkdownFiles(): the vault's documents, in the vault's order
VaultOrder == <<"a", "b", "c", "o0101", "n1230", "n1231", "n0101", "n0102", "n0103">>
getMarkdownFiles ==
    LET InVault(f) == f \in vault
    IN  FilterSeq(VaultOrder, InVault)

fetchFolderFiles(s) ==
    IF Falsy(s.options.target) \/ ~s.options.app THEN s
    ELSE LET Keep(file) == InFolder(ParentPath(file), s.options.target)
         IN  [s EXCEPT !.allFiles =
                 sortFilesByTimeField(FilterSeq(getMarkdownFiles, Keep),
                                      s.options.timeField)]

\* target.startsWith("#") ? target : "#" + target
TargetTag(target) == IF StartsWith(target, <<"#">>) THEN target ELSE <<"#">> \o target

fetchTaggedFiles(s) ==
    IF Falsy(s.options.target) \/ ~s.options.app THEN s
    ELSE LET Keep(file) == HasTags(file) /\ TargetTag(s.options.target) \in TagsOf(file)
         IN  [s EXCEPT !.allFiles =
                 sortFilesByTimeField(FilterSeq(getMarkdownFiles, Keep),
                                      s.options.timeField)]

----------------------------------------------------------------------------
(* FileManager: the range filter *)

isDateInRange(opts, fileDate, now) ==
    CASE opts.timeRange = "today-after" -> fileDate.valid /\ fileDate.day <= now
      [] opts.timeRange = "week" -> fileDate.valid /\ WeekOf(fileDate.day) = WeekOf(now)
      [] opts.timeRange = "month" -> fileDate.valid /\ MonthOf(fileDate.day) = MonthOf(now)
      [] opts.timeRange = "year" -> fileDate.valid /\ YearOf(fileDate.day) = YearOf(now)
      [] opts.timeRange = "last-week" ->
            fileDate.valid /\ WeekOf(fileDate.day) = WeekOf(now - 7)
      [] opts.timeRange = "last-month" ->
            fileDate.valid /\ MonthOf(fileDate.day) = MonthOf(now) - 1
      [] opts.timeRange = "last-year" ->
            fileDate.valid /\ YearOf(fileDate.day) = YearOf(now) - 1
      [] opts.timeRange = "quarter" ->
            fileDate.valid /\ QuarterOf(fileDate.day) = QuarterOf(now)
      [] opts.timeRange = "last-quarter" ->
            fileDate.valid /\ QuarterOf(fileDate.day) = QuarterOf(now) - 1
      [] opts.timeRange = "custom" ->
            IF opts.customRange.present
            THEN /\ fileDate.valid
                 /\ opts.customRange.start <= fileDate.day
                 /\ fileDate.day <= opts.customRange.end
            ELSE FALSE
      [] OTHER -> TRUE

filterFilesByTimeRange(s) ==
    LET now == today
        p == parseTimeField(s.options.timeField)
        \* moment(file.stat[baseTimeField]); file.stat.name is undefined, and
        \* moment(undefined) is now
        Keep(file) ==
            LET fileDate == IF p.baseTimeField = "name" THEN Moment(now)
                            ELSE Moment(DayOfStamp(StatOf(file, p.baseTimeField)))
            IN  isDateInRange(s.options, fileDate, now)
        kept == FilterSeq(s.allFiles, Keep)
    IN  [s EXCEPT !.filteredFiles = IF p.isReverse THEN Reverse(kept) ELSE kept]

filterDailyNotesByRange(s) ==
    LET now == today
        Keep(file) == isDateInRange(s.options, ParseDay(Basename(file)), now)
    IN  [s EXCEPT !.filteredFiles = FilterSeq(s.allFiles, Keep)]

filterFilesByRange(s) ==
    IF s.options.timeRange = Unset THEN [s EXCEPT !.filteredFiles = s.allFiles]
    ELSE IF s.options.timeRange = "all" THEN [s EXCEPT !.filteredFiles = s.allFiles]
    ELSE IF s.options.mode = "daily"
         THEN filterDailyNotesByRange([s EXCEPT !.filteredFiles = <<>>])
         ELSE filterFilesByTimeRange([s EXCEPT !.filteredFiles = <<>>])

----------------------------------------------------------------------------
(* FileManager: current-day tracking and the full fetch *)

\* the fields after the call, and what the call returns
checkDailyNote(s) ==
    IF s.options.mode # "daily"
    THEN [self |-> [s EXCEPT !.hasCurrentDay = TRUE], ret |-> TRUE]
    ELSE LET cache == getAllDailyNotes
         IN  IF ~HasDailyNote(today, cache)
             THEN [self |-> [s EXCEPT !.hasCurrentDay = FALSE], ret |-> FALSE]
             ELSE LET s1 == IF s.hasCurrentDay = FALSE
                            THEN filterFilesByRange(
                                     fetchDailyNotes([s EXCEPT !.allFiles = <<>>]))
                            ELSE s
                  IN  [self |-> [s1 EXCEPT !.hasCurrentDay = TRUE], ret |-> TRUE]

\* fetchFiles without its test of hasFetched
fetchFiles_again(s) ==
    LET s1 == CASE s.options.mode = "daily" -> fetchDailyNotes(s)
                [] s.options.mode = "folder" -> fetchFolderFiles(s)
                [] s.options.mode = "tag" -> fetchTaggedFiles(s)
                [] OTHER -> s
        s2 == [s1 EXCEPT !.hasFetched = TRUE]
    IN  filterFilesByRange(checkDailyNote(s2).self)

fetchFiles(s) ==
    IF s.hasFetched THEN s
    ELSE LET s1 == CASE s.options.mode = "daily" -> fetchDailyNotes(s)
                     [] s.options.mode = "folder" -> fetchFolderFiles(s)
                     [] s.options.mode = "tag" -> fetchTaggedFiles(s)
                     [] OTHER -> s
             s2 == [s1 EXCEPT !.hasFetched = TRUE]
         IN  filterFilesByRange(checkDailyNote(s2).self)

\* new FileManager(options)
Construct(opts) ==
    fetchFiles([allFiles |-> <<>>, filteredFiles |-> <<>>, hasFetched |-> FALSE,
                hasCurrentDay |-> TRUE, options |-> opts])

----------------------------------------------------------------------------
(* FileManager: incremental updates *)

\* createNewDailyNote testing the mode alone before it calls createDailyNote
createNewDailyNoteCalls_anyDay(s) == s.options.mode = "daily"

\* createNewDailyNote up to its await: whether createDailyNote is called
createNewDailyNoteCalls(s) == ~(s.options.mode # "daily" \/ s.hasCurrentDay)

\* createNewDailyNote after its await, currentDailyNote being what createDailyNote gave
createNewDailyNoteResume(s, created, currentDailyNote) ==
    IF created
    THEN LET pushed == [s EXCEPT !.allFiles = Append(s.allFiles, currentDailyNote)]
             sorted == [pushed EXCEPT !.allFiles =
                            sortDailyNotes(pushed.allFiles, s.options.timeField)]
         IN  filterFilesByRange([sorted EXCEPT !.hasCurrentDay = TRUE])
    ELSE s

handleDailyNoteCreate(s, file) ==
    LET fileDate == getDateFromFile(file)
        lastFilteredFileDate == ParseDay(Basename(s.filteredFiles[Len(s.filteredFiles)]))
        firstFilteredFileDate == ParseDay(Basename(s.filteredFiles[1]))
        isBefore(a, b) == a.valid /\ b.valid /\ a.day < b.day
        isAfter(a, b) == a.valid /\ b.valid /\ a.day > b.day
        intoAll ==
            LET pushed == [s EXCEPT !.allFiles = Append(s.allFiles, file)]
            IN  filterFilesByRange(
                    [pushed EXCEPT !.allFiles =
                        sortDailyNotes(pushed.allFiles, s.options.timeField)])
        intoFiltered ==
            [s EXCEPT !.filteredFiles =
                sortDailyNotes(Append(s.filteredFiles, file), s.options.timeField)]
        placed ==
            IF isAfter(fileDate, lastFilteredFileDate)
               /\ isBefore(fileDate, firstFilteredFileDate)
            THEN intoFiltered
            ELSE IF isBefore(fileDate, lastFilteredFileDate) THEN intoAll
            ELSE IF isAfter(fileDate, firstFilteredFileDate) THEN intoFiltered
            ELSE s
    IN  IF ~fileDate.valid THEN s
        ELSE IF Len(s.filteredFiles) = 0 THEN intoAll
        ELSE IF fileDate.day = today THEN [placed EXCEPT !.hasCurrentDay = TRUE]
        ELSE placed

\* handleFolderFileCreate without its test of the parent path
handleFolderFileCreate_anyFolder(s, file) ==
    IF Falsy(s.options.target) THEN s
    ELSE LET pushed == [s EXCEPT !.allFiles = Append(s.allFiles, file)]
         IN  filterFilesByRange(
                 [pushed EXCEPT !.allFiles =
                     sortFilesByTimeField(pushed.allFiles, s.options.timeField)])

handleFolderFileCreate(s, file) ==
    IF Falsy(s.options.target) THEN s
    ELSE IF InFolder(ParentPath(file), s.options.target)
    THEN LET pushed == [s EXCEPT !.allFiles = Append(s.allFiles, file)]
         IN  filterFilesByRange(
                 [pushed EXCEPT !.allFiles =
                     sortFilesByTimeField(pushed.allFiles, s.options.timeField)])
    ELSE s

handleTaggedFileCreate(s, file) ==
    IF Falsy(s.options.target) \/ ~s.options.app THEN s
    ELSE IF ~HasTags(file) THEN s
    ELSE IF TargetTag(s.options.target) \in TagsOf(file)
    THEN LET pushed == [s EXCEPT !.allFiles = Append(s.allFiles, file)]
         IN  filterFilesByRange(
                 [pushed EXCEPT !.allFiles =
                     sortFilesByTimeField(pushed.allFiles, s.options.timeField)])
    ELSE s

fileCreate(s, file) ==
    CASE s.options.mode = "daily" -> handleDailyNoteCreate(s, file)
      [] s.options.mode = "folder" -> handleFolderFileCreate(s, file)
      [] s.options.mode = "tag" -> handleTaggedFileCreate(s, file)
      [] OTHER -> s

\* fileDelete removing the document from filteredFiles alone
fileDelete_filteredOnly(s, file) ==
    LET Other(f) == Basename(f) # Basename(file)
        removed == [s EXCEPT !.filteredFiles = FilterSeq(s.filteredFiles, Other)]
    IN  IF s.options.mode = "daily" /\ getDateFromFile(file).valid
        THEN checkDailyNote(filterFilesByRange(removed)).self
        ELSE removed

fileDelete(s, file) ==
    LET Other(f) == Basename(f) # Basename(file)
        removed == [s EXCEPT !.filteredFiles = FilterSeq(s.filteredFiles, Other),
                             !.allFiles = FilterSeq(s.allFiles, Other)]
    IN  IF s.options.mode = "daily" /\ getDateFromFile(file).valid
        THEN checkDailyNote(filterFilesByRange(removed)).self
        ELSE removed

----------------------------------------------------------------------------
(* FileManager: option updates.  A Partial<FileManagerOptions> is the set  *)
(* of keys it supplies and their values.                                   *)

OptionKeys == {"mode", "target", "timeRange", "customRange", "app", "timeField"}

NoCustomRange == [present |-> FALSE, start |-> 0, end |-> 0]
CustomRange(start, end) == [present |-> TRUE, start |-> start, end |-> end]

Supplies(partial, key) == key \in partial.has

\* { ...this.options, ...options }
Merge(opts, partial) ==
    [key \in OptionKeys |-> IF Supplies(partial, key) THEN partial.val[key] ELSE opts[key]]

\* updateOptions merging the options and filtering nothing anew
updateOptions_mergeOnly(s, partial) ==
    LET merged == [s EXCEPT !.options = Merge(s.options, partial)]
    IN  IF \/ Supplies(partial, "mode")
           \/ Supplies(partial, "target") /\ ~Falsy(partial.val.target)
        THEN fetchFiles([merged EXCEPT !.allFiles = <<>>, !.filteredFiles = <<>>,
                                       !.hasFetched = FALSE])
        ELSE merged

updateOptions(s, partial) ==
    LET merged == [s EXCEPT !.options = Merge(s.options, partial)]
        refiltered ==
            IF \/ Supplies(partial, "timeRange") /\ partial.val.timeRange # Unset
               \/ Supplies(partial, "customRange") /\ partial.val.customRange.present
            THEN filterFilesByRange(merged)
            ELSE merged
    IN  IF \/ Supplies(partial, "mode")
           \/ Supplies(partial, "target") /\ ~Falsy(partial.val.target)
        THEN fetchFiles([refiltered EXCEPT !.allFiles = <<>>, !.filteredFiles = <<>>,
                                           !.hasFetched = FALSE])
        ELSE refiltered

----------------------------------------------------------------------------
(* The state machine *)

Commit(s) ==
    /\ allFiles' = s.allFiles
    /\ filteredFiles' = s.filteredFiles
    /\ hasFetched' = s.hasFetched
    /\ hasCurrentDay' = s.hasCurrentDay
    /\ options' = s.options

NoOp == [op |-> "none", arg |-> "void"]

Did(op, arg, ret) ==
    /\ lastOp' = IF op \in observed THEN [op |-> op, arg |-> arg] ELSE NoOp
    /\ lastRet' = IF op \in observed THEN ret ELSE Void
    /\ observed' = observed

BoolRet(b) == IF b THEN "true" ELSE "false"

\* A caller calls fetchFiles().
FetchFiles ==
    /\ Commit(fetchFiles(Self))
    /\ Did("fetchFiles", Void, Void)
    /\ UNCHANGED <<vault, stat, today, pending>>

\* A caller calls filterFilesByRange().
FilterFilesByRange ==
    /\ Commit(filterFilesByRange(Self))
    /\ Did("filterFilesByRange", Void, Void)
    /\ UNCHANGED <<vault, stat, today, pending>>

\* A caller calls checkDailyNote().
CheckDailyNote ==
    /\ Commit(checkDailyNote(Self).self)
    /\ Did("checkDailyNote", Void, BoolRet(checkDailyNote(Self).ret))
    /\ UNCHANGED <<vault, stat, today, pending>>

\* A caller calls createNewDailyNote(), which returns null at once.
CreateNewDailyNoteRefused ==
    /\ ~createNewDailyNoteCalls(Self)
    /\ Did("createNewDailyNote", Void, Null)
    /\ UNCHANGED <<allFiles, filteredFiles, hasFetched, hasCurrentDay, options,
                   vault, stat, today, pending>>

\* The vault notifies the engine of a document it holds: fileCreate(file).
FileCreate(file) ==
    /\ file \in vault
    /\ Len(allFiles) < MaxLen
    /\ Len(filteredFiles) < MaxLen
    /\ Commit(fileCreate(Self, file))
    /\ Did("fileCreate", file, Void)
    /\ UNCHANGED <<vault, stat, today, pending>>

\* The vault notifies the engine of a document it no longer holds:
\* fileDelete(file).
FileDelete(file) ==
    /\ file \notin vault
    /\ Commit(fileDelete(Self, file))
    /\ Did("fileDelete", file, Void)
    /\ UNCHANGED <<vault, stat, today, pending>>

\* A caller calls updateOptions(partial).
UpdateOptions(partial) ==
    /\ Commit(updateOptions(Self, partial))
    /\ Did("updateOptions", partial.has, Void)
    /\ UNCHANGED <<vault, stat, today, pending>>

\* A caller calls createNewDailyNote() and nothing else runs until it has
\* returned: createDailyNote(moment()) writes today's note, or fails.
CreateNewDailyNote(created) ==
    /\ createNewDailyNoteCalls(Self)
    /\ Len(allFiles) <= MaxLen
    /\ created => NoteFor(today) \notin vault
    /\ vault' = IF created THEN vault \cup {NoteFor(today)} ELSE vault
    /\ stat' = IF created
               THEN [stat EXCEPT ![NoteFor(today)] =
                        [ctime |-> NowStamp(today), mtime |-> NowStamp(today)]]
               ELSE stat
    /\ Commit(createNewDailyNoteResume(Self, created, NoteFor(today)))
    /\ Did("createNewDailyNote", "createDailyNote", IF created THEN NoteFor(today) ELSE Null)
    /\ UNCHANGED <<today, pending>>

\* A caller calls createNewDailyNote(), which calls createDailyNote(moment())
\* and is suspended on it.
CreateNewDailyNoteAwait ==
    /\ createNewDailyNoteCalls(Self)
    /\ Len(pending) < MaxPending
    /\ Len(allFiles) < MaxLen
    /\ pending' = Append(pending, [date |-> today, state |-> "called"])
    /\ Did("createNewDailyNote.await", Void, Void)
    /\ UNCHANGED <<allFiles, filteredFiles, hasFetched, hasCurrentDay, options,
                   vault, stat, today>>

\* createDailyNote writes the note of its date into the vault.  It fails when
\* the vault holds that note already.
CreateDailyNoteWrites(i) ==
    /\ pending[i].state = "called"
    /\ NoteFor(pending[i].date) \notin vault
    /\ vault' = vault \cup {NoteFor(pending[i].date)}
    /\ stat' = [stat EXCEPT ![NoteFor(pending[i].date)] =
                   [ctime |-> NowStamp(today), mtime |-> NowStamp(today)]]
    /\ pending' = [pending EXCEPT ![i].state = "created"]
    /\ Did("createDailyNote.writes", Void, Void)
    /\ UNCHANGED <<allFiles, filteredFiles, hasFetched, hasCurrentDay, options,
                   today>>

\* createDailyNote fails: it gives nothing.
CreateDailyNoteFails(i) ==
    /\ pending[i].state = "called"
    /\ pending' = [pending EXCEPT ![i].state = "failed"]
    /\ Did("createDailyNote.fails", Void, Void)
    /\ UNCHANGED <<allFiles, filteredFiles, hasFetched, hasCurrentDay, options,
                   vault, stat, today>>

\* The vault notifies the engine of the note createDailyNote has written,
\* before the suspended createNewDailyNote runs on: fileCreate(note).
CreateDailyNoteNotifies(i) ==
    /\ pending[i].state = "created"
    /\ Commit(fileCreate(Self, NoteFor(pending[i].date)))
    /\ pending' = [pending EXCEPT ![i].state = "notified"]
    /\ Did("fileCreate", NoteFor(pending[i].date), Void)
    /\ UNCHANGED <<vault, stat, today>>

\* createDailyNote has settled and createNewDailyNote runs on to its return.
CreateNewDailyNoteResume(i) ==
    /\ pending[i].state \in {"created", "notified", "failed"}
    /\ Commit(createNewDailyNoteResume(Self, pending[i].state # "failed",
                                       NoteFor(pending[i].date)))
    /\ pending' = SubSeq(pending, 1, i - 1) \o SubSeq(pending, i + 1, Len(pending))
    /\ Did("createNewDailyNote.resume", Void,
           IF pending[i].state # "failed" THEN NoteFor(pending[i].date) ELSE Null)
    /\ UNCHANGED <<vault, stat, today>>

\* Midnight passes: moment() is the next day.
AdvanceDay ==
    /\ today < LastToday
    /\ today' = today + 1
    /\ Did("moment", Void, Void)
    /\ UNCHANGED <<allFiles, filteredFiles, hasFetched, hasCurrentDay, options,
                   vault, stat, pending>>

\* A document appears in the vault.
VaultCreate(file) ==
    /\ file \notin vault
    /\ vault' = vault \cup {file}
    /\ Did("vault.create", Void, Void)
    /\ UNCHANGED <<allFiles, filteredFiles, hasFetched, hasCurrentDay, options,
                   stat, today, pending>>

\* A document leaves the vault.
VaultDelete(file) ==
    /\ file \in vault
    /\ vault' = vault \ {file}
    /\ Did("vault.delete", Void, Void)
    /\ UNCHANGED <<allFiles, filteredFiles, hasFetched, hasCurrentDay, options,
                   stat, today, pending>>

----------------------------------------------------------------------------
(* Initial states and inputs *)

\* 2024-01-02, a Tuesday: D.  D-1 is in D's month and week, D-2 in D's week
\* and the month before, D-3 in the week and the month before.
FirstToday == ParseDay(<<2024, 1, 2>>).day

Stamp(day, tick) == day * TicksPerDay + tick

\* Every document was written on its day and never touched again; today's
\* note is being written now.
StatAsWritten ==
    [f \in Docs |->
        LET day == CASE f = "a" -> -3 [] f = "b" -> 0 [] f = "c" -> 1
                     [] f = "n0103" -> 1
                     [] OTHER -> ParseDay(Basename(f)).day
        IN  IF f = NoteFor(FirstToday)
            THEN [ctime |-> NowStamp(FirstToday), mtime |-> NowStamp(FirstToday)]
            ELSE [ctime |-> Stamp(day, 0), mtime |-> Stamp(day, 0)]]

\* Older documents were edited later: D-2 yesterday, after D-1 was written;
\* D-3 at the instant D-1 was written; a after b, at the instant c was.
StatEdited ==
    [f \in Docs |->
        [ctime |-> StatAsWritten[f].ctime,
         mtime |-> CASE f = "n1231" -> Stamp(1, 1)
                     [] f = "n1230" -> Stamp(1, 0)
                     [] f = "a" -> Stamp(1, 0)
                     [] OTHER -> StatAsWritten[f].mtime]]

StatChoices == {StatEdited}

Options(mode, target, timeRange, customRange, timeField) ==
    [mode |-> mode, target |-> target, timeRange |-> timeRange,
     customRange |-> customRange, app |-> TRUE, timeField |-> timeField]

Partial(has, val) == [has |-> has, val |-> val]

AnyOptions == Options("daily", <<>>, Unset, NoCustomRange, Unset)

\* updateOptions({ timeRange })
WithTimeRange(r) == Partial({"timeRange"}, [AnyOptions EXCEPT !.timeRange = r])
\* updateOptions({ customRange })
WithCustomRange(c) == Partial({"customRange"}, [AnyOptions EXCEPT !.customRange = c])
\* updateOptions({ timeRange: "custom", customRange })
WithCustom(c) ==
    Partial({"timeRange", "customRange"},
            [AnyOptions EXCEPT !.timeRange = "custom", !.customRange = c])
\* updateOptions({ mode, target })
WithModeTarget(m, tg) ==
    Partial({"mode", "target"}, [AnyOptions EXCEPT !.mode = m, !.target = tg])
\* updateOptions({ target })
WithTarget(tg) == Partial({"target"}, [AnyOptions EXCEPT !.target = tg])
\* updateOptions({ timeField })
WithTimeField(tf) == Partial({"timeField"}, [AnyOptions EXCEPT !.timeField = tf])

InitOver(U, Opts, ops) ==
    /\ today = FirstToday
    /\ pending = <<>>
    /\ vault \in SUBSET U
    /\ stat \in StatChoices
    /\ options \in Opts
    /\ allFiles = Construct(options).allFiles
    /\ filteredFiles = Construct(options).filteredFiles
    /\ hasFetched = Construct(options).hasFetched
    /\ hasCurrentDay = Construct(options).hasCurrentDay
    /\ observed = ops
    /\ lastOp = NoOp
    /\ lastRet = Void

NextOver(U, Updates) ==
    \/ FetchFiles
    \/ FilterFilesByRange
    \/ CheckDailyNote
    \/ CreateNewDailyNoteRefused
    \/ \E created \in BOOLEAN : CreateNewDailyNote(created)
    \/ \E file \in U : FileCreate(file)
    \/ \E file \in U : FileDelete(file)
    \/ \E partial \in Updates : UpdateOptions(partial)
    \/ \E file \in U : VaultCreate(file)
    \/ \E file \in U : VaultDelete(file)

----------------------------------------------------------------------------
(* The behaviours: the notes of D-2, D-1 and D in the daily-notes folder   *)
(* and a document named after D-1 in another folder; an engine constructed *)
(* for the daily view with any time field, and every operation from there  *)

Universe == {"n1231", "n0101", "n0102", "o0101"}

TimeRanges == {Unset, "all", "month", "custom"}
TimeFields == {Unset, "ctime", "mtimeReverse", "name", "nameReverse"}

InitOptions ==
    {Options("daily", <<>>, r, CustomRange(0, 1), tf) : r \in {Unset, "month"}, tf \in TimeFields}

AllUpdates ==
    {WithTimeRange(r) : r \in TimeRanges}
    \cup {WithModeTarget("daily", <<>>), WithModeTarget("folder", DailyFolder),
          WithModeTarget("tag", <<"w">>), WithTarget(<<"O">>)}

Next == NextOver(Universe, AllUpdates)

\* no call is recorded
Init == InitOver(Universe, InitOptions, {})
Spec == Init /\ [][Next]_vars

\* the calls of fetchFiles are recorded
InitFetch == InitOver(Universe, InitOptions, {"fetchFiles"})
SpecFetch == InitFetch /\ [][Next]_vars

\* the calls of createNewDailyNote are recorded
InitNewNote == InitOver(Universe, InitOptions, {"createNewDailyNote"})
SpecNewNote == InitNewNote /\ [][Next]_vars

\* the calls of fileCreate are recorded
InitCreate == InitOver(Universe, InitOptions, {"fileCreate"})
SpecCreate == InitCreate /\ [][Next]_vars

\* the calls of fileDelete are recorded
InitDelete == InitOver(Universe, InitOptions, {"fileDelete"})
SpecDelete == InitDelete /\ [][Next]_vars

\* the calls of updateOptions are recorded
InitUpdate == InitOver(Universe, InitOptions, {"updateOptions"})
SpecUpdate == InitUpdate /\ [][Next]_vars

\* The notes of D-3, D-2 and D-1 in the daily-notes folder and none of D; an
\* engine constructed for the daily view with any of the seven time fields;
\* the calls of createNewDailyNote are recorded.
ScenarioUniverse == {"n1230", "n1231", "n0101", "n0102"}
ScenarioVault == {NoteFor(FirstToday - 3), NoteFor(FirstToday - 2), NoteFor(FirstToday - 1)}
ScenarioFields ==
    {Unset, "ctime", "mtime", "ctimeReverse", "mtimeReverse", "name", "nameReverse"}
ScenarioOptions ==
    {Options("daily", <<>>, r, NoCustomRange, tf) : r \in {Unset, "week"}, tf \in ScenarioFields}
ScenarioUpdates == {WithTimeRange(r) : r \in {"all", "week"}}

InitScenario ==
    /\ vault = ScenarioVault
    /\ InitOver(ScenarioUniverse, ScenarioOptions, {"createNewDailyNote"})
NextScenario == NextOver(ScenarioUniverse, ScenarioUpdates)
SpecScenario == InitScenario /\ [][NextScenario]_vars

\* Projects/a.md, Projects/Sub/b.md and Other/c.md; an engine constructed for
\* the folder view of Projects; the calls of fileCreate and updateOptions are
\* recorded.
Projects == <<"P">>
FolderUniverse == FolderDocs
FolderOptions ==
    {Options("folder", Projects, r, NoCustomRange, tf) :
        r \in {Unset, "month"}, tf \in {Unset, "ctimeReverse", "name"}}
FolderUpdates ==
    {WithTarget(<<"O">>), WithTarget(<<>>), WithTarget(Projects),
     WithModeTarget("daily", <<>>), WithModeTarget("folder", <<"P", "/", "S">>),
     WithModeTarget("tag", <<"#", "w">>), WithTimeRange("month")}

InitFolder == InitOver(FolderUniverse, FolderOptions, {"fileCreate", "updateOptions"})
NextFolder == NextOver(FolderUniverse, FolderUpdates)
SpecFolder == InitFolder /\ [][NextFolder]_vars

\* An engine constructed for the daily view with a window for its time
\* range, and no updateOptions after that.
WindowOptions ==
    {Options("daily", <<>>, r, CustomRange(0, 1), tf) :
        r \in {"week", "month", "last-month", "custom"}, tf \in {Unset, "name"}}

InitWindow == InitOver(Universe, WindowOptions, {"fileCreate"})
NextWindow ==
    \/ FetchFiles
    \/ CheckDailyNote
    \/ CreateNewDailyNoteRefused
    \/ \E created \in BOOLEAN : CreateNewDailyNote(created)
    \/ \E file \in Universe : FileCreate(file)
    \/ \E file \in Universe : FileDelete(file)
    \/ \E file \in Universe : VaultCreate(file)
    \/ \E file \in Universe : VaultDelete(file)
SpecWindow == InitWindow /\ [][NextWindow]_vars

\* An engine constructed for the daily view; createNewDailyNote is suspended
\* on createDailyNote, and while it is, createNewDailyNote may be called
\* again and the vault may notify the engine of the note just written.
AsyncUniverse == {"n1231", "n0101", "n0102"}
AsyncOptions ==
    {Options("daily", <<>>, r, NoCustomRange, tf) :
        r \in {Unset, "month"}, tf \in {Unset, "name"}}

InitAsync == InitOver(AsyncUniverse, AsyncOptions, {})
NextAsync ==
    \/ CreateNewDailyNoteRefused
    \/ CreateNewDailyNoteAwait
    \/ \E i \in 1..Len(pending) : CreateDailyNoteWrites(i)
    \/ \E i \in 1..Len(pending) : CreateDailyNoteFails(i)
    \/ \E i \in 1..Len(pending) : CreateDailyNoteNotifies(i)
    \/ \E i \in 1..Len(pending) : CreateNewDailyNoteResume(i)
SpecAsync == InitAsync /\ [][NextAsync]_vars

\* The notes of D-1, D and D+1; an engine constructed on D for the daily
\* view; midnight may pass; the calls of checkDailyNote are recorded.
DaysUniverse == {"n0101", "n0102", "n0103"}
DaysOptions ==
    {Options("daily", <<>>, r, NoCustomRange, tf) :
        r \in {Unset, "month"}, tf \in {Unset, "name"}}
DaysUpdates ==
    {WithTimeRange("week"), WithModeTarget("folder", DailyFolder),
     WithModeTarget("daily", <<>>)}

InitDays == InitOver(DaysUniverse, DaysOptions, {"checkDailyNote"})
NextDays == NextOver(DaysUniverse, DaysUpdates) \/ AdvanceDay
SpecDays == InitDays /\ [][NextDays]_vars

----------------------------------------------------------------------------
(* Properties *)

Basenames(files) == {Basename(files[i]) : i \in 1..Len(files)}

\* whether the array a is the array b with some elements left out
RECURSIVE IsSubsequence(_, _)
IsSubsequence(a, b) ==
    IF a = <<>> THEN TRUE
    ELSE IF b = <<>> THEN FALSE
    ELSE IF Head(a) = Head(b) THEN IsSubsequence(Tail(a), Tail(b))
    ELSE IsSubsequence(a, Tail(b))

NoDuplicates(files) ==
    \A i, j \in 1..Len(files) : Basename(files[i]) = Basename(files[j]) => i = j

\* whether the array holds a daily note of that day
HoldsNoteOf(files, day) ==
    \E i \in 1..Len(files) :
        getDateFromFile(files[i]).valid /\ getDateFromFile(files[i]).day = day

\* C1: in every reachable state each document of filteredFiles is in
\* allFiles, documents being compared by basename.
C1_FilteredWithinAll == Basenames(filteredFiles) \subseteq Basenames(allFiles)

\* C2: in every reachable state filteredFiles is a subsequence of allFiles:
\* its documents stand in the order they have in allFiles.
C2_FilteredSubsequenceOfAll == IsSubsequence(filteredFiles, allFiles)

\* C3: after every fileCreate, createNewDailyNote or fileDelete allFiles holds
\* no two documents of the same basename.
C3_AllFilesNoDuplicates ==
    lastOp.op \in {"fileCreate", "createNewDailyNote", "fileDelete"}
        => NoDuplicates(allFiles)

\* C4: in daily mode hasCurrentDay is true if and only if allFiles holds a
\* daily note of today.  Stated on the states in which the vault holds
\* today's note, where a deletion the engine was not told of cannot be the
\* reason for a difference.
C4_HasCurrentDayIffNoteInAll ==
    (options.mode = "daily" /\ NoteFor(today) \in vault)
        => (hasCurrentDay <=> HoldsNoteOf(allFiles, today))

\* whether x stands in the array before y
Before(files, x, y) ==
    \E i, j \in 1..Len(files) : i < j /\ files[i] = x /\ files[j] = y

\* the engine of the scenario just before createNewDailyNote is called: the
\* daily view of the notes of D-3, D-2 and D-1, no note of D anywhere
ScenarioBefore ==
    /\ options.mode = "daily"
    /\ vault = ScenarioVault
    /\ Range(allFiles) = ScenarioVault /\ Len(allFiles) = 3
    /\ ~hasCurrentDay

Succeeded == lastOp'.op = "createNewDailyNote" /\ lastRet' = NoteFor(today)

NewestFirstFields == {Unset, "mtime", "ctime", "nameReverse"}

\* C5, as stated: in the scenario, once createNewDailyNote has succeeded
\* hasCurrentDay is true and allFiles holds the note of D before the note of
\* D-1, whatever the time field.
C5_NewNoteBeforeYesterday ==
    [][(ScenarioBefore /\ Succeeded)
        => (hasCurrentDay' /\ Before(allFiles', NoteFor(today), NoteFor(today - 1)))]_vars

\* C5, amended: in the scenario with the time field unset, mtime, ctime or
\* nameReverse, once createNewDailyNote has succeeded hasCurrentDay is true
\* and allFiles holds the note of D before the note of D-1.
C5_NewNoteBeforeYesterdayNewestFirst ==
    [][(ScenarioBefore /\ options.timeField \in NewestFirstFields /\ Succeeded)
        => (hasCurrentDay' /\ Before(allFiles', NoteFor(today), NoteFor(today - 1)))]_vars

\* C5 happens: createNewDailyNote has returned the note of D to an engine
\* that held the notes of D-3, D-2 and D-1, and its newest-first order has
\* the note of D in front.
C5_Witness ==
    /\ lastOp.op = "createNewDailyNote" /\ lastRet = NoteFor(today)
    /\ options.timeField \in NewestFirstFields
    /\ Range(allFiles) = ScenarioVault \cup {NoteFor(today)} /\ Len(allFiles) = 4
    /\ allFiles[1] = NoteFor(today)
    /\ hasCurrentDay

\* C6: whenever createNewDailyNote returns null, allFiles, filteredFiles and
\* hasCurrentDay are after the call what they were before it; and when the
\* mode is not daily or hasCurrentDay is true, the call returns null without
\* having called createDailyNote, the vault being what it was.
C6_RefusedLeavesState ==
    [][lastOp'.op = "createNewDailyNote"
        => /\ lastRet' = Null => UNCHANGED <<allFiles, filteredFiles, hasCurrentDay>>
           /\ (options.mode # "daily" \/ hasCurrentDay)
                => /\ lastRet' = Null
                   /\ lastOp'.arg # "createDailyNote"
                   /\ UNCHANGED <<vault, stat>>]_vars

\* C6 happens: createDailyNote was called and failed, in the daily view of
\* an engine that holds documents and has no note of today.
C6_Witness ==
    /\ lastOp = [op |-> "createNewDailyNote", arg |-> "createDailyNote"]
    /\ lastRet = Null
    /\ options.mode = "daily" /\ ~hasCurrentDay
    /\ allFiles # <<>> /\ filteredFiles # <<>>

\* C7: every call of fetchFiles on the constructed engine leaves allFiles,
\* filteredFiles and hasCurrentDay what they were.
C7_FetchFilesIdempotent ==
    [][lastOp'.op = "fetchFiles"
        => UNCHANGED <<allFiles, filteredFiles, hasCurrentDay>>]_vars

\* C7 happens: fetchFiles has been called on an engine whose vault is no
\* longer the one its arrays were fetched from.
C7_Witness ==
    /\ lastOp.op = "fetchFiles"
    /\ hasFetched
    /\ Construct(options).allFiles # allFiles
    /\ Construct(options).hasCurrentDay # hasCurrentDay

\* whether the vault holds a document of that document's basename
NamesakeInVault(file) == \E g \in vault : Basename(g) = Basename(file)

Deleted == lastOp.arg

\* C8, as stated: after fileDelete(f), f being absent from the vault, neither
\* allFiles nor filteredFiles holds a document of f's basename.
C8_DeletedBasenameGone ==
    lastOp.op = "fileDelete"
        => Basename(Deleted) \notin Basenames(allFiles) \cup Basenames(filteredFiles)

\* C8, amended: after fileDelete(f), the vault holding no document of f's
\* basename, neither allFiles nor filteredFiles holds a document of f's
\* basename.
C8_DeletedBasenameGoneNoNamesake ==
    (lastOp.op = "fileDelete" /\ ~NamesakeInVault(Deleted))
        => Basename(Deleted) \notin Basenames(allFiles) \cup Basenames(filteredFiles)

\* C8 happens: fileDelete was called in the daily view for a daily note with
\* no namesake in the vault, and the arrays still hold the notes that stay.
C8_Witness ==
    /\ lastOp.op = "fileDelete"
    /\ ~NamesakeInVault(Deleted)
    /\ options.mode = "daily" /\ getDateFromFile(Deleted).valid
    /\ allFiles # <<>> /\ filteredFiles # <<>>
    /\ hasCurrentDay

\* filteredFiles as filterFilesByRange leaves it, given allFiles and options
Refiltered(files, opts) ==
    filterFilesByRange([Self EXCEPT !.allFiles = files, !.options = opts]).filteredFiles

Created == lastOp'.arg

\* whether the document's date lies after the date of the last element of
\* the array and before the date of its first
StrictlyInside(file, files) ==
    /\ files # <<>>
    /\ getDateFromFile(file).valid
    /\ ParseDay(Basename(files[Len(files)])).valid
    /\ ParseDay(Basename(files[1])).valid
    /\ ParseDay(Basename(files[Len(files)])).day < getDateFromFile(file).day
    /\ getDateFromFile(file).day < ParseDay(Basename(files[1])).day

\* C10: in daily mode fileCreate of a document dated strictly between the
\* last and the first element of filteredFiles adds it to filteredFiles, and
\* the documents filteredFiles held stand in it in the order they had.
C10_InsertKeepsOrder ==
    [][(lastOp'.op = "fileCreate" /\ options.mode = "daily"
            /\ StrictlyInside(Created, filteredFiles))
        => /\ Created \in Range(filteredFiles')
           /\ IsSubsequence(filteredFiles, filteredFiles')]_vars

\* allFiles of an engine constructed now with this time field, the other
\* options and the vault being what they are
FetchedWith(timeField) == Construct([options EXCEPT !.timeField = timeField]).allFiles

\* C11: for the vault and the mode and target of any state, the allFiles a
\* fetch gives with timeField mtime is the reverse of the allFiles a fetch
\* gives with timeField mtimeReverse.
C11_MtimeReverseIsReversed ==
    FetchedWith("mtime") = Reverse(FetchedWith("mtimeReverse"))

\* whether the document's parent path is the folder or lies below it
InOrBelow(file, folder) ==
    \/ ParentPath(file) = folder
    \/ /\ Len(ParentPath(file)) > Len(folder)
       /\ SubSeq(ParentPath(file), 1, Len(folder) + 1) = folder \o <<"/">>

FolderView == options.mode = "folder" /\ options.target # <<>>

\* the engine has just fetched: it is newly constructed, or updateOptions
\* has just reset it for a mode or a target
JustFetched ==
    \/ lastOp.op = "updateOptions" /\ "mode" \in lastOp.arg
    \/ lastOp.op = "updateOptions" /\ "target" \in lastOp.arg

FetchedExactly ==
    Range(allFiles) = {f \in vault : InOrBelow(f, options.target)}

\* C12: in folder mode with a non-empty target allFiles always holds only
\* documents whose parent path is the target or starts with target + "/";
\* directly after the fetch (construction, or the reset of updateOptions) it
\* holds exactly the vault's documents of that kind; and fileCreate of a
\* document of another folder changes neither allFiles nor filteredFiles.
C12_FolderMembership ==
    /\ FolderView => FetchedExactly
    /\ [](FolderView => \A i \in 1..Len(allFiles) : InOrBelow(allFiles[i], options.target))
    /\ []((FolderView /\ JustFetched) => FetchedExactly)
    /\ [][(FolderView /\ lastOp'.op = "fileCreate"
             /\ ~InOrBelow(lastOp'.arg, options.target))
          => UNCHANGED <<allFiles, filteredFiles>>]_vars

\* C12 happens: the folder view of Projects holds Projects/a.md and
\* Projects/Sub/b.md, and fileCreate has just been called for Other/c.md.
C12_Witness ==
    /\ FolderView /\ options.target = Projects
    /\ lastOp = [op |-> "fileCreate", arg |-> "c"]
    /\ Range(allFiles) = {"a", "b"} /\ Len(allFiles) = 2

\* C13: with a window for the time range, in the daily view every document
\* of filteredFiles has its date in the window, after any fetch, fileCreate,
\* fileDelete, createNewDailyNote and checkDailyNote.
C13_FilteredInWindow ==
    (options.mode = "daily" /\ options.timeRange \notin {Unset, "all"})
        => \A i \in 1..Len(filteredFiles) :
               isDateInRange(options, getDateFromFile(filteredFiles[i]), today)

\* how often the document stands in the array
Count(files, file) == Cardinality({i \in 1..Len(files) : files[i] = file})

\* C14: when no createNewDailyNote call is suspended any more and the vault
\* holds today's note, whatever ran while a call was suspended (another
\* createNewDailyNote call, the fileCreate notification of the note just
\* written), allFiles holds today's note exactly once and filteredFiles at
\* most once.
C14_TodayOnceWhenSettled ==
    (pending = <<>> /\ NoteFor(today) \in vault)
        => /\ Count(allFiles, NoteFor(today)) = 1
           /\ Count(filteredFiles, NoteFor(today)) <= 1

\* C15: in the daily view, when checkDailyNote has just returned true,
\* hasCurrentDay is true and allFiles holds the vault's note of today.
C15_CheckedTrueHoldsToday ==
    (lastOp.op = "checkDailyNote" /\ lastRet = "true" /\ options.mode = "daily")
        => hasCurrentDay /\ NoteFor(today) \in Range(allFiles)

\* C16: in the daily view, after fileCreate of a document whose date is
\* today, hasCurrentDay is true.
C16_CreatedTodaySetsFlag ==
    (lastOp.op = "fileCreate" /\ options.mode = "daily"
        /\ getDateFromFile(lastOp.arg).valid /\ getDateFromFile(lastOp.arg).day = today)
        => hasCurrentDay

\* C17: after an updateOptions call that supplies neither mode nor target
\* and changes the value of timeRange or customRange, filteredFiles is what
\* the range filter gives for allFiles under the merged options.
C17_RangeChangeRefilters ==
    [][(/\ lastOp'.op = "updateOptions"
        /\ lastOp'.arg \subseteq {"timeRange", "customRange"}
        /\ \/ options'.timeRange # options.timeRange
           \/ options'.customRange # options.customRange)
        => filteredFiles' = Refiltered(allFiles', options')]_vars

\* C18: after an updateOptions call that changes the value of mode or of
\* target, allFiles, filteredFiles and hasCurrentDay are those of an engine
\* constructed with the merged options on the same vault and day.
C18_ModeTargetChangeResets ==
    [][(/\ lastOp'.op = "updateOptions"
        /\ options'.mode # options.mode \/ options'.target # options.target)
        => /\ allFiles' = Construct(options').allFiles
           /\ filteredFiles' = Construct(options').filteredFiles
           /\ hasCurrentDay' = Construct(options').hasCurrentDay]_vars

\* whether a may stand before b under the sort rule of the time field
InOrder(a, b, timeField) ==
    LET p == parseTimeField(timeField)
    IN  IF p.baseTimeField = "name"
        THEN IF p.isReverse THEN LocaleCompare(Name(a), Name(b)) >= 0
             ELSE LocaleCompare(Name(a), Name(b)) <= 0
        ELSE IF p.isReverse
             THEN StatOf(a, p.baseTimeField) <= StatOf(b, p.baseTimeField)
             ELSE StatOf(a, p.baseTimeField) >= StatOf(b, p.baseTimeField)

\* C19: allFiles is ordered by the sort rule of the time field the engine
\* was constructed with: by name ascending (descending if reversed), by
\* ctime or mtime descending (ascending if reversed), in every mode.
C19_AllFilesSorted ==
    \A i, j \in 1..Len(allFiles) :
        i < j => InOrder(allFiles[i], allFiles[j], options.timeField)

\* the documents of the array whose basename is not that of the document
Others(files, file) == {g \in Range(files) : Basename(g) # Basename(file)}

\* C20: fileDelete(f) takes from filteredFiles and from allFiles only
\* documents of f's basename: every document of another basename that was
\* in filteredFiles (in allFiles) before the call is in it after the call.
C20_DeleteKeepsOthers ==
    [][lastOp'.op = "fileDelete"
        => /\ Others(filteredFiles, lastOp'.arg) \subseteq Range(filteredFiles')
           /\ Others(allFiles, lastOp'.arg) \subseteq Range(allFiles')]_vars

====
